---------------------------- MODULE Spec2Model ----------------------------
(***************************************************************************)
(* GD&T validation engine of stone_slab_cad (utils/gdt_validation.py).     *)
(*                                                                         *)
(* Lengths, angles and roughness values are integers counting tenths       *)
(* (0.1 mm, 0.1 degree, 0.1 um): 8.0 mm is 80, the 0.5 tolerance is 5.     *)
(* A quotient the code computes in floating point is kept as an exact      *)
(* fraction [n, d]; a square root is taken to 1/SqrtScale and is exact     *)
(* whenever the radicand is a perfect square.                              *)
(*                                                                         *)
(* Spec       : one run of GDnTValidationEngine.validate_all, statement by *)
(*              statement, followed by the caller reading the report.      *)
(* SpecV      : the feature validators applied, one call at a time, to     *)
(*              inputs drawn from bounded ranges.                          *)
(* SpecC      : a ChamferSpecification object (edge_treatment_specs.py),   *)
(*              constructed and then assigned to by its holder.            *)
(* SpecS      : generate_drawing and process_slab_file of the backend's    *)
(*              CAD service (backend/app/services/cad_service.py).         *)
(* SpecL      : optimize_layout of the backend's API (api/cad.py).         *)
(***************************************************************************)
EXTENDS Integers, Sequences, FiniteSets, TLC

VARIABLES
    pc,                      \* position of validate_all / its caller
    spec,                    \* self.spec : ManufacturingProcessSpec
    chamfer_measurements,    \* argument: dict in insertion order, or NoArgs
    edge_point_data,         \* argument: dict in insertion order
    drip_edge_measurements,  \* argument: None or dict in insertion order
    report,                  \* the EdgeValidationReport being built
    idx,                     \* number of entries the current loop has taken
    results,                 \* local list `results` of the current iteration
    all_chamfer_measurements,\* local list collected by the chamfer loop
    produced,                \* history: every ValidationResult of this run
    observed,                \* what the caller read from report.overall_status
    summary,                 \* outcome of generate_report_summary
    call,                    \* SpecV: the last validator call and its outcome
    chamfer_spec,            \* SpecC: a ChamferSpecification object, or None
    service                  \* SpecS: the CAD service, its calls, the temp dirs

vars == <<pc, spec, chamfer_measurements, edge_point_data,
          drip_edge_measurements, report, idx, results,
          all_chamfer_measurements, produced, observed, summary, call,
          chamfer_spec, service>>

engineVars == <<pc, spec, chamfer_measurements, edge_point_data,
                drip_edge_measurements, report, idx, results,
                all_chamfer_measurements, produced, observed, summary>>

-----------------------------------------------------------------------------
(* Bounds of the model *)

MaxTol == 5             \* tolerance fields range over 0..MaxTol tenths
MaxDev == 41            \* scalar readings range over nominal +- MaxDev tenths
MaxDimDev == 7          \* groove width/depth readings: nominal +- MaxDimDev
MaxCoord == 2           \* edge points have x, y in 0..MaxCoord
MaxPoints == 2          \* an edge point sequence has at most MaxPoints points
MaxMeasurements == 2    \* validate_profile_consistency gets at most that many
MaxEntries == 2         \* entries of the three maps of one validate_all run
MaxCalls == 3           \* calls of the CAD service in one behaviour

-----------------------------------------------------------------------------
(* Numbers *)

Abs(x) == IF x < 0 THEN -x ELSE x

\* A fraction n/d with d > 0: the value of a floating-point quotient.
Rat(n, d) == [n |-> n, d |-> d]
RInt(k) == [n |-> k, d |-> 1]
RLe(a, b) == a.n * b.d <= b.n * a.d
RLt(a, b) == a.n * b.d < b.n * a.d
REq(a, b) == a.n * b.d = b.n * a.d
\* Python's max(a, b): b only when b > a.
RMax(a, b) == IF RLt(a, b) THEN b ELSE a

SqrtScale == 100

RECURSIVE SumSeq(_)
SumSeq(s) == IF s = <<>> THEN 0 ELSE Head(s) + SumSeq(Tail(s))

\* Variant: the lower clamp is missing.
Max0_Unclamped(x) == x

\* max(0, x)
Max0(x) == IF x.n > 0 THEN x ELSE RInt(0)

\* 100 - (deviation / tolerance) * factor, for tolerance # 0
CompliancePct(deviation, tolerance, factor) ==
    Rat(100 * tolerance * deviation.d - factor * deviation.n,
        tolerance * deviation.d)

RECURSIVE ISqrtSearch(_, _, _)
ISqrtSearch(n, lo, hi) ==
    IF lo >= hi THEN lo
    ELSE LET mid == (lo + hi + 1) \div 2
         IN  IF mid * mid <= n THEN ISqrtSearch(n, mid, hi)
             ELSE ISqrtSearch(n, lo, mid - 1)

\* floor(sqrt(n)); 46340 is the largest root of a 32-bit integer
ISqrt(n) == ISqrtSearch(n, 0, IF n < 46340 THEN n ELSE 46340)

\* sqrt(n) to 1/SqrtScale, as a fraction
RSqrt(n) == Rat(ISqrt(n * SqrtScale * SqrtScale), SqrtScale)

-----------------------------------------------------------------------------
(* Data model *)

\* class EdgeOrientation
EdgeOrientation == {"front", "rear", "left", "right"}

\* class ValidationStatus
PASS == "pass"
WARN == "warning"
FAIL == "fail"
NOT_CHECKED == "not_checked"
ValidationStatus == {PASS, WARN, FAIL, NOT_CHECKED}

\* Python's None, and a present Optional value
None == [none |-> TRUE]
Some(v) == [value |-> v]

\* The exception a Python division by zero raises, as the outcome of a call.
ZeroDivisionError == [exception |-> "ZeroDivisionError"]
Raised(r) == "exception" \in DOMAIN r

\* Defaults of ChamferSpecification, GDnTSpecification, DripEdgeSpecification
DefaultDepth == 80
DefaultAngle == 450
DefaultToleranceMm == 5
DefaultRoughnessRa == 32
DefaultPerpendicularityTol == 1
DefaultPositionTol == 10
DefaultOverhang == 300
DefaultGrooveDepth == 50
DefaultGrooveWidth == 80
DefaultDistanceFromEdge == 200

ChamferSpecification(tol) ==
    [depth_mm |-> DefaultDepth, angle_degrees |-> DefaultAngle,
     tolerance_mm |-> tol, surface_roughness_ra |-> DefaultRoughnessRa]

GDnTSpecification(perp, pos) ==
    [perpendicularity_tolerance_mm |-> perp, position_tolerance_mm |-> pos]

DripEdgeSpecification ==
    [overhang_mm |-> DefaultOverhang, groove_depth_mm |-> DefaultGrooveDepth,
     groove_width_mm |-> DefaultGrooveWidth,
     distance_from_edge_mm |-> DefaultDistanceFromEdge]

ChamferMeasurement(o, depth, angle, ra) ==
    [edge_orientation |-> o, depth_mm |-> depth, angle_degrees |-> angle,
     roughness_ra |-> ra]

MeasurementPoint(x, y, z) == [x |-> x, y |-> y, z |-> z]

ValidationResult(name, status, measured, nominal, deviation, tolerance, compliance, recommendations) ==
    [check_name |-> name, status |-> status, measured_value |-> measured,
     nominal_value |-> nominal, deviation |-> deviation,
     tolerance |-> tolerance, compliance_percentage |-> compliance,
     recommendations |-> recommendations]

-----------------------------------------------------------------------------
(* ChamferValidator *)

AngleTolerance == 5
RoughnessTolerance == 5
ProfileTolerance == 1

\* Variant: the tiers start at the tolerance instead of above it.
validate_depth_Exclusive(self_spec, measurement) ==
    LET deviation == Abs(measurement.depth_mm - self_spec.depth_mm)
        tolerance == self_spec.tolerance_mm
        status == IF deviation >= tolerance * 2 THEN FAIL
                  ELSE IF deviation >= tolerance THEN WARN
                  ELSE PASS
    IN  ValidationResult(<<"Chamfer Depth", measurement.edge_orientation>>,
                         status, RInt(measurement.depth_mm),
                         self_spec.depth_mm, RInt(deviation), tolerance,
                         RInt(0), <<>>)

validate_depth(self_spec, measurement) ==
    LET deviation == Abs(measurement.depth_mm - self_spec.depth_mm)
        tolerance == self_spec.tolerance_mm
        status == IF deviation > tolerance * 2 THEN FAIL
                  ELSE IF deviation > tolerance THEN WARN
                  ELSE PASS
        compliance == IF tolerance > 0
                      THEN Max0(CompliancePct(RInt(deviation), tolerance, 100))
                      ELSE RInt(100)
        recommendations ==
            IF status = FAIL
            THEN <<"Adjust CNC tool offset",
                   "Verify tool wear and replace if necessary">>
            ELSE IF status = WARN
            THEN <<"Monitor tool wear closely",
                   "Check coolant flow and concentration">>
            ELSE <<>>
    IN  ValidationResult(<<"Chamfer Depth", measurement.edge_orientation>>,
                         status, RInt(measurement.depth_mm),
                         self_spec.depth_mm, RInt(deviation), tolerance,
                         compliance, recommendations)

\* Variant: the angle is classified against the specification's
\* tolerance_mm.
validate_angle_SpecTolerance(self_spec, measurement) ==
    LET deviation == Abs(measurement.angle_degrees - self_spec.angle_degrees)
        tolerance == self_spec.tolerance_mm
        status == IF deviation > tolerance * 2 THEN FAIL
                  ELSE IF deviation > tolerance THEN WARN
                  ELSE PASS
        compliance == IF tolerance > 0
                      THEN Max0(CompliancePct(RInt(deviation), tolerance, 100))
                      ELSE RInt(100)
        recommendations ==
            IF status = FAIL
            THEN <<"Check CNC tool orientation/tilt",
                   "Verify fixture alignment and clamping">>
            ELSE <<>>
    IN  ValidationResult(<<"Chamfer Angle", measurement.edge_orientation>>,
                         status, RInt(measurement.angle_degrees),
                         self_spec.angle_degrees, RInt(deviation), tolerance,
                         compliance, recommendations)

validate_angle(self_spec, measurement) ==
    LET deviation == Abs(measurement.angle_degrees - self_spec.angle_degrees)
        tolerance == AngleTolerance
        status == IF deviation > tolerance * 2 THEN FAIL
                  ELSE IF deviation > tolerance THEN WARN
                  ELSE PASS
        compliance == IF tolerance > 0
                      THEN Max0(CompliancePct(RInt(deviation), tolerance, 100))
                      ELSE RInt(100)
        recommendations ==
            IF status = FAIL
            THEN <<"Check CNC tool orientation/tilt",
                   "Verify fixture alignment and clamping">>
            ELSE <<>>
    IN  ValidationResult(<<"Chamfer Angle", measurement.edge_orientation>>,
                         status, RInt(measurement.angle_degrees),
                         self_spec.angle_degrees, RInt(deviation), tolerance,
                         compliance, recommendations)

\* Variant: roughness classified with the three tiers of depth and angle.
validate_surface_roughness_ThreeTier(self_spec, measurement) ==
    IF measurement.roughness_ra = None
    THEN ValidationResult(
             <<"Surface Roughness", measurement.edge_orientation>>,
             NOT_CHECKED, RInt(0), self_spec.surface_roughness_ra, RInt(0),
             RoughnessTolerance, RInt(0),
             <<"Perform surface roughness measurement">>)
    ELSE LET deviation == Abs(measurement.roughness_ra.value
                              - self_spec.surface_roughness_ra)
             tolerance == RoughnessTolerance
             status == IF deviation > tolerance * 2 THEN FAIL
                       ELSE IF deviation > tolerance THEN WARN
                       ELSE PASS
         IN  ValidationResult(
                 <<"Surface Roughness", measurement.edge_orientation>>,
                 status, RInt(measurement.roughness_ra.value),
                 self_spec.surface_roughness_ra, RInt(deviation), tolerance,
                 RInt(0), <<>>)

validate_surface_roughness(self_spec, measurement) ==
    IF measurement.roughness_ra = None
    THEN ValidationResult(
             <<"Surface Roughness", measurement.edge_orientation>>,
             NOT_CHECKED, RInt(0), self_spec.surface_roughness_ra, RInt(0),
             RoughnessTolerance, RInt(0),
             <<"Perform surface roughness measurement">>)
    ELSE LET deviation == Abs(measurement.roughness_ra.value
                              - self_spec.surface_roughness_ra)
             tolerance == RoughnessTolerance
             status == IF deviation <= tolerance THEN PASS ELSE WARN
             compliance == Max0(CompliancePct(RInt(deviation), tolerance, 50))
         IN  ValidationResult(
                 <<"Surface Roughness", measurement.edge_orientation>>,
                 status, RInt(measurement.roughness_ra.value),
                 self_spec.surface_roughness_ra, RInt(deviation), tolerance,
                 compliance, <<>>)

\* np.std: the population standard deviation of a non-empty sequence
Std(xs) ==
    LET n == Len(xs)
        sq == [i \in 1..n |-> xs[i] * xs[i]]
        radicand == n * SumSeq(sq) - SumSeq(xs) * SumSeq(xs)
        root == RSqrt(radicand)
    IN  Rat(root.n, root.d * n)

\* Variant: a single measurement is enough for the consistency check.
validate_profile_consistency_NonEmpty(measurements) ==
    IF Len(measurements) < 1
    THEN ValidationResult(<<"Chamfer Profile Consistency">>, NOT_CHECKED,
                          RInt(0), 0, RInt(0), 0, RInt(0), <<>>)
    ELSE LET depths == [i \in 1..Len(measurements) |->
                            measurements[i].depth_mm]
             angles == [i \in 1..Len(measurements) |->
                            measurements[i].angle_degrees]
             max_deviation ==
                 RMax(Std(depths), Rat(Std(angles).n, Std(angles).d * 10))
             status ==
                 IF RLt(RInt(ProfileTolerance * 2), max_deviation) THEN FAIL
                 ELSE IF RLt(RInt(ProfileTolerance), max_deviation) THEN WARN
                 ELSE PASS
         IN  ValidationResult(
                 <<"Chamfer Profile Consistency (All Edges)">>, status,
                 max_deviation, 0, max_deviation, ProfileTolerance,
                 Max0(CompliancePct(max_deviation, ProfileTolerance, 100)),
                 <<IF status # PASS THEN "Check machine calibration" ELSE "">>)

validate_profile_consistency(measurements) ==
    IF Len(measurements) < 2
    THEN ValidationResult(<<"Chamfer Profile Consistency">>, NOT_CHECKED,
                          RInt(0), 0, RInt(0), 0, RInt(0), <<>>)
    ELSE LET depths == [i \in 1..Len(measurements) |->
                            measurements[i].depth_mm]
             angles == [i \in 1..Len(measurements) |->
                            measurements[i].angle_degrees]
             depth_std == Std(depths)
             angle_std == Std(angles)
             profile_tolerance == ProfileTolerance
             max_deviation ==
                 RMax(depth_std, Rat(angle_std.n, angle_std.d * 10))
             status ==
                 IF RLt(RInt(profile_tolerance * 2), max_deviation) THEN FAIL
                 ELSE IF RLt(RInt(profile_tolerance), max_deviation) THEN WARN
                 ELSE PASS
             compliance ==
                 Max0(CompliancePct(max_deviation, profile_tolerance, 100))
         IN  ValidationResult(
                 <<"Chamfer Profile Consistency (All Edges)">>, status,
                 max_deviation, 0, max_deviation, profile_tolerance,
                 compliance,
                 <<IF status # PASS THEN "Check machine calibration" ELSE "">>)

-----------------------------------------------------------------------------
(* EdgeSquarenessValidator *)

\* math.tan(math.acos(0)) * 100 is 1.6e18 mm in floating point: a finite
\* deviation above every tolerance of the model; this number stands for it.
TanHalfPiDeviation == 10000000

Vec(p, q) == <<q.x - p.x, q.y - p.y, q.z - p.z>>
Dot(u, v) == u[1] * v[1] + u[2] * v[2] + u[3] * v[3]
Cross(u, v) == <<u[2] * v[3] - u[3] * v[2],
                 u[3] * v[1] - u[1] * v[3],
                 u[1] * v[2] - u[2] * v[1]>>
ZeroVec == <<0, 0, 0>>

\* The points lie on one straight line (or all coincide).
Collinear(edge_points) ==
    \A i, j \in 1..Len(edge_points) :
        Cross(Vec(edge_points[1], edge_points[i]),
              Vec(edge_points[1], edge_points[j])) = ZeroVec

\* The first principal direction of points on one line is the direction of
\* the line (up to sign and length, which calculate_perpendicularity
\* removes).  When all points coincide the centred matrix is zero and every
\* unit vector is a first right-singular vector: svd is the one LAPACK
\* returns.
calculate_edge_vector(edge_points, svd) ==
    IF Len(edge_points) < 2 THEN <<0, 0, 1>>
    ELSE LET moved == {i \in 1..Len(edge_points) :
                          edge_points[i] # edge_points[1]}
         IN  IF moved = {} THEN svd
             ELSE LET i == CHOOSE k \in moved : \A m \in moved : k <= m
                  IN  Vec(edge_points[1], edge_points[i])

\* Variant: the deviation grows as the edge turns towards the normal
\* (cotangent instead of tangent).
calculate_perpendicularity_Cotangent(edge_vector, normal) ==
    LET dot_product == Abs(Dot(edge_vector, normal))
        e2 == Dot(edge_vector, edge_vector)
        r2 == Dot(normal, normal)
        root == RSqrt(e2 * r2 - dot_product * dot_product)
    IN  IF root.n = 0 THEN RInt(TanHalfPiDeviation)
        ELSE Rat(1000 * dot_product * root.d, root.n)

\* tan(acos(|e.r| / (|e||r|))) * 100 mm, in tenths
calculate_perpendicularity(edge_vector, normal) ==
    LET dot_product == Abs(Dot(edge_vector, normal))
        e2 == Dot(edge_vector, edge_vector)
        r2 == Dot(normal, normal)
        root == RSqrt(e2 * r2 - dot_product * dot_product)
    IN  IF dot_product = 0 THEN RInt(TanHalfPiDeviation)
        ELSE Rat(1000 * root.n, root.d * dot_product)

validate_edge_squareness(self_spec, edge_points, normal, orientation, svd) ==
    LET edge_vector == calculate_edge_vector(edge_points, svd)
        deviation_mm == calculate_perpendicularity(edge_vector, normal)
        tolerance == self_spec.perpendicularity_tolerance_mm
        status == IF RLt(RInt(tolerance * 2), deviation_mm) THEN FAIL
                  ELSE IF RLt(RInt(tolerance), deviation_mm) THEN WARN
                  ELSE PASS
        compliance == IF tolerance > 0
                      THEN Max0(CompliancePct(deviation_mm, tolerance, 100))
                      ELSE RInt(100)
        recommendations ==
            IF status = FAIL
            THEN <<"Check machine axis alignment",
                   "Verify workpiece fixture squareness">>
            ELSE <<>>
    IN  ValidationResult(<<"Edge Squareness", orientation>>, status,
                         deviation_mm, 0, deviation_mm, tolerance,
                         compliance, recommendations)

-----------------------------------------------------------------------------
(* DripEdgeValidator *)

OverhangTolerance == 20
GrooveTolerance == 5

validate_overhang_distance(drip_spec, measured_overhang_mm, orientation) ==
    LET deviation == Abs(measured_overhang_mm - drip_spec.overhang_mm)
        tolerance == OverhangTolerance
        status == IF deviation > tolerance * 2 THEN FAIL
                  ELSE IF deviation > tolerance THEN WARN
                  ELSE PASS
        compliance == Max0(CompliancePct(RInt(deviation), tolerance, 100))
    IN  ValidationResult(
            <<"Drip Edge Overhang", orientation>>, status,
            RInt(measured_overhang_mm), drip_spec.overhang_mm,
            RInt(deviation), tolerance, compliance,
            <<IF status # PASS THEN "Adjust flashing bracket position"
              ELSE "">>)

validate_groove_position(drip_spec, gdt_spec, measured_mm, orientation) ==
    LET deviation == Abs(measured_mm - drip_spec.distance_from_edge_mm)
        tolerance == gdt_spec.position_tolerance_mm
        status == IF deviation <= tolerance THEN PASS ELSE WARN
    IN  IF tolerance = 0 THEN ZeroDivisionError
        ELSE ValidationResult(
                 <<"Drip Groove Position", orientation>>, status,
                 RInt(measured_mm),
                 drip_spec.distance_from_edge_mm, RInt(deviation), tolerance,
                 Max0(CompliancePct(RInt(deviation), tolerance, 100)), <<>>)

validate_groove_dimensions(drip_spec, measured_width_mm, measured_depth_mm, orientation) ==
    LET width_deviation == Abs(measured_width_mm - drip_spec.groove_width_mm)
        width_tolerance == GrooveTolerance
        width_status == IF width_deviation <= width_tolerance THEN PASS
                        ELSE WARN
        depth_deviation == Abs(measured_depth_mm - drip_spec.groove_depth_mm)
        depth_tolerance == GrooveTolerance
        depth_status == IF depth_deviation <= depth_tolerance THEN PASS
                        ELSE WARN
    IN  <<ValidationResult(
              <<"Drip Groove Width", orientation>>, width_status,
              RInt(measured_width_mm), drip_spec.groove_width_mm,
              RInt(width_deviation), width_tolerance,
              Max0(CompliancePct(RInt(width_deviation), width_tolerance, 100)),
              <<>>),
          ValidationResult(
              <<"Drip Groove Depth", orientation>>, depth_status,
              RInt(measured_depth_mm), drip_spec.groove_depth_mm,
              RInt(depth_deviation), depth_tolerance,
              Max0(CompliancePct(RInt(depth_deviation), depth_tolerance, 100)),
              <<>>)>>

-----------------------------------------------------------------------------
(* EdgeValidationReport and ManufacturingProcessSpec *)

\* EdgeValidationReport(specification_id, timestamp): the maps are kept as
\* sequences of <<orientation, value>> in insertion order.
EdgeValidationReport ==
    [chamfer_results |-> <<>>, squareness_results |-> <<>>,
     drip_edge_results |-> <<>>,
     total_checks |-> 0, passed_checks |-> 0, warning_checks |-> 0,
     failed_checks |-> 0]

\* Variant: warnings are looked at before failures.
overall_status_WarnFirst(r) ==
    IF r.warning_checks > 0 THEN WARN
    ELSE IF r.failed_checks > 0 THEN FAIL
    ELSE IF r.passed_checks > 0 THEN PASS
    ELSE NOT_CHECKED

overall_status(r) ==
    IF r.failed_checks > 0 THEN FAIL
    ELSE IF r.warning_checks > 0 THEN WARN
    ELSE IF r.passed_checks > 0 THEN PASS
    ELSE NOT_CHECKED

\* drip_edges is the set of orientations that have a DripEdgeSpecification
\* (every one of them the default one).
ManufacturingProcessSpec(tol, perp, pos, drip_edges) ==
    [c8_chamfer |-> ChamferSpecification(tol),
     gdt_spec |-> GDnTSpecification(perp, pos),
     drip_edges |-> drip_edges]

DefaultSpec ==
    ManufacturingProcessSpec(DefaultToleranceMm, DefaultPerpendicularityTol,
                             DefaultPositionTol, {})

-----------------------------------------------------------------------------
(* Input ranges *)

Tolerances == 0..MaxTol
Readings(nominal, dev) == {x \in (nominal - dev)..(nominal + dev) : x >= 0}

\* Perpendicularity tolerances: the small ones and two wide ones, for which
\* a slanted edge of the grid is within one or two tolerances.
PerpTolerances == Tolerances \cup {500, 1000}

Points == {MeasurementPoint(x, y, z) : x \in 0..MaxCoord, y \in 0..MaxCoord,
                                       z \in 0..1}

RECURSIVE SeqsUpTo(_, _)
SeqsUpTo(S, n) ==
    IF n = 0 THEN {<<>>}
    ELSE LET shorter == SeqsUpTo(S, n - 1)
         IN  shorter \cup {Append(q, x) : q \in shorter, x \in S}

\* Edge point sequences: points of the grid on one straight line.
EdgePointSeqs == {q \in SeqsUpTo(Points, MaxPoints) : Collinear(q)}

\* The unit vector an SVD of the zero matrix may return as vh[0].
SvdChoices == {<<1, 0, 0>>, <<0, 1, 0>>, <<0, 0, 1>>}

reference_normal == <<0, 1, 0>>

\* Chamfer readings for the consistency check: depths and angles whose
\* spread is below, at and above one and two profile tolerances.
ConsistencyDepths == {80, 81, 82, 84, 85}
ConsistencyAngles == {450, 470, 490, 491}
OrientationOrder == <<"front", "rear", "left", "right">>

MeasurementLists ==
    LET pairs == ConsistencyDepths \X ConsistencyAngles
        lists == SeqsUpTo(pairs, MaxMeasurements)
    IN  {[i \in 1..Len(q) |->
            ChamferMeasurement(OrientationOrder[((i - 1) % 4) + 1],
                               q[i][1], q[i][2], None)] : q \in lists}

-----------------------------------------------------------------------------
(* SpecV: the validators, one call at a time *)

NoCall == [op |-> "none"]

EngineIdle ==
    /\ pc = "idle"
    /\ spec = DefaultSpec
    /\ chamfer_measurements = <<>>
    /\ edge_point_data = <<>>
    /\ drip_edge_measurements = None
    /\ report = EdgeValidationReport
    /\ idx = 0
    /\ results = <<>>
    /\ all_chamfer_measurements = <<>>
    /\ produced = <<>>
    /\ observed = None
    /\ summary = None

InitV ==
    EngineIdle /\ call = NoCall /\ chamfer_spec = None /\ service = None

CallValidateDepth ==
    \E o \in EdgeOrientation, tol \in Tolerances,
       depth \in Readings(DefaultDepth, MaxDev) :
        LET s == ChamferSpecification(tol)
            m == ChamferMeasurement(o, depth, DefaultAngle, None)
        IN  call' = [op |-> "validate_depth", spec |-> s, measurement |-> m,
                     result |-> validate_depth(s, m)]

CallValidateAngle ==
    \E o \in EdgeOrientation, tol \in Tolerances,
       angle \in Readings(DefaultAngle, MaxDev) :
        LET s == ChamferSpecification(tol)
            m == ChamferMeasurement(o, DefaultDepth, angle, None)
        IN  call' = [op |-> "validate_angle", spec |-> s, measurement |-> m,
                     result |-> validate_angle(s, m)]

CallValidateSurfaceRoughness ==
    \E o \in EdgeOrientation, tol \in Tolerances,
       ra \in {Some(v) : v \in Readings(DefaultRoughnessRa, MaxDev)}
               \cup {None} :
        LET s == ChamferSpecification(tol)
            m == ChamferMeasurement(o, DefaultDepth, DefaultAngle, ra)
        IN  call' = [op |-> "validate_surface_roughness", spec |-> s,
                     measurement |-> m,
                     result |-> validate_surface_roughness(s, m)]

CallValidateProfileConsistency ==
    \E ms \in MeasurementLists :
        call' = [op |-> "validate_profile_consistency", measurements |-> ms,
                 result |-> validate_profile_consistency(ms)]

CallValidateEdgeSquareness ==
    \E o \in EdgeOrientation, perp \in PerpTolerances,
       pts \in EdgePointSeqs, svd \in SvdChoices :
        LET g == GDnTSpecification(perp, DefaultPositionTol)
        IN  call' = [op |-> "validate_edge_squareness", spec |-> g,
                     edge_points |-> pts,
                     result |-> validate_edge_squareness(
                                    g, pts, reference_normal, o, svd)]

CallValidateOverhangDistance ==
    \E o \in EdgeOrientation, x \in Readings(DefaultOverhang, MaxDev) :
        call' = [op |-> "validate_overhang_distance",
                 spec |-> DripEdgeSpecification, measured |-> x,
                 result |-> validate_overhang_distance(
                                DripEdgeSpecification, x, o)]

CallValidateGroovePosition ==
    \E o \in EdgeOrientation, pos \in Tolerances,
       x \in Readings(DefaultDistanceFromEdge, MaxDev) :
        LET g == GDnTSpecification(DefaultPerpendicularityTol, pos)
        IN  call' = [op |-> "validate_groove_position",
                     spec |-> DripEdgeSpecification, gdt_spec |-> g,
                     measured |-> x,
                     result |-> validate_groove_position(
                                    DripEdgeSpecification, g, x, o)]

CallValidateGrooveDimensions ==
    \E o \in EdgeOrientation,
       w \in Readings(DefaultGrooveWidth, MaxDimDev),
       d \in Readings(DefaultGrooveDepth, MaxDimDev) :
        call' = [op |-> "validate_groove_dimensions",
                 spec |-> DripEdgeSpecification,
                 measured_width |-> w, measured_depth |-> d,
                 result |-> validate_groove_dimensions(
                                DripEdgeSpecification, w, d, o)]

\* One validator call per behaviour: the validators keep no state, so a
\* second call would only repeat the first.
NextV ==
    /\ call = NoCall
    /\ \/ CallValidateDepth
       \/ CallValidateAngle
       \/ CallValidateSurfaceRoughness
       \/ CallValidateProfileConsistency
       \/ CallValidateEdgeSquareness
       \/ CallValidateOverhangDistance
       \/ CallValidateGroovePosition
       \/ CallValidateGrooveDimensions
    /\ UNCHANGED <<engineVars, chamfer_spec, service>>

SpecV == InitV /\ [][NextV]_vars

-----------------------------------------------------------------------------
(* Spec: one run of GDnTValidationEngine.validate_all *)

\* The specifications an engine is constructed with: the defaults without
\* drip edges, with drip edges on every edge and on the front edge only, and
\* one with a position tolerance of exactly 0.
ManufacturingSpecs ==
    {DefaultSpec,
     ManufacturingProcessSpec(DefaultToleranceMm, DefaultPerpendicularityTol,
                              DefaultPositionTol, EdgeOrientation),
     ManufacturingProcessSpec(DefaultToleranceMm, DefaultPerpendicularityTol,
                              DefaultPositionTol, {"front"}),
     ManufacturingProcessSpec(DefaultToleranceMm, DefaultPerpendicularityTol,
                              0, EdgeOrientation)}

\* <<depth, angle, roughness>> readings of one chamfer: on nominal; depth
\* off by 0.7 without a roughness reading; angle off by 1.2 and roughness by
\* 0.8; depth off by 0.3 without a roughness reading.
ChamferSamples ==
    {<<80, 450, Some(32)>>, <<87, 450, None>>, <<80, 462, Some(40)>>,
     <<83, 450, None>>}

\* Edge point sequences: no point, one point, two coincident points, an
\* edge along the reference normal and an edge across it.
EdgeSamples ==
    {<<>>,
     <<MeasurementPoint(0, 0, 0)>>,
     <<MeasurementPoint(0, 0, 0), MeasurementPoint(0, 0, 0)>>,
     <<MeasurementPoint(0, 0, 0), MeasurementPoint(0, 1, 0)>>,
     <<MeasurementPoint(0, 0, 0), MeasurementPoint(1, 0, 0)>>}

DripReadings(overhang, distance, width, depth) ==
    [overhang_mm |-> overhang, groove_distance_from_edge_mm |-> distance,
     groove_width_mm |-> width, groove_depth_mm |-> depth]

\* Drip-edge reading maps: empty; complete and on nominal; only an overhang
\* off by 5.0; overhang off by 2.5, groove off by 1.5 and 1.0 too wide; a
\* groove position with a width alone; groove dimensions alone.
DripSamples ==
    {DripReadings(None, None, None, None),
     DripReadings(Some(300), Some(200), Some(80), Some(50)),
     DripReadings(Some(350), None, None, None),
     DripReadings(Some(325), Some(215), Some(90), Some(50)),
     DripReadings(None, Some(200), Some(80), None),
     DripReadings(None, None, Some(80), Some(50))}

\* The dicts with n entries: sequences of <<orientation, value>> with
\* distinct orientations, in insertion order.
RECURSIVE DictsOfSize(_, _)
DictsOfSize(values, n) ==
    IF n = 0 THEN {<<>>}
    ELSE {Append(d, <<o, v>>) :
            d \in DictsOfSize(values, n - 1),
            o \in EdgeOrientation, v \in values}

DistinctKeys(d) == \A i, j \in 1..Len(d) : d[i][1] = d[j][1] => i = j

Dicts(values, n) == {d \in DictsOfSize(values, n) : DistinctKeys(d)}

Init ==
    /\ pc = "idle"
    /\ spec \in ManufacturingSpecs
    /\ chamfer_measurements = <<>>
    /\ edge_point_data = <<>>
    /\ drip_edge_measurements = None
    /\ report = EdgeValidationReport
    /\ idx = 0
    /\ results = <<>>
    /\ all_chamfer_measurements = <<>>
    /\ produced = <<>>
    /\ observed = None
    /\ summary = None
    /\ call = NoCall
    /\ chamfer_spec = None
    /\ service = None

\* report with one more check counted in total_checks
CountTotal(r, n) == [r EXCEPT !.total_checks = @ + n]

\* Variant: a counter that depends on what was counted before: once a
\* failure is counted, passes are no longer counted.
CountStatus_StopAfterFail(r, status) ==
    IF status = PASS /\ r.failed_checks = 0
    THEN [r EXCEPT !.passed_checks = @ + 1]
    ELSE IF status = WARN THEN [r EXCEPT !.warning_checks = @ + 1]
    ELSE IF status = FAIL THEN [r EXCEPT !.failed_checks = @ + 1]
    ELSE r

\* the if/elif chain that counts one result by its status (lines 509-514)
CountStatus(r, status) ==
    IF status = PASS THEN [r EXCEPT !.passed_checks = @ + 1]
    ELSE IF status = WARN THEN [r EXCEPT !.warning_checks = @ + 1]
    ELSE IF status = FAIL THEN [r EXCEPT !.failed_checks = @ + 1]
    ELSE r

\* the if/elif chain of the drip-edge checks (lines 558-561)
CountStatusDrip(r, status) ==
    IF status = PASS THEN [r EXCEPT !.passed_checks = @ + 1]
    ELSE IF status = WARN THEN [r EXCEPT !.warning_checks = @ + 1]
    ELSE r

RECURSIVE CountAll(_, _)
CountAll(r, rs) ==
    IF rs = <<>> THEN r
    ELSE CountAll(CountStatus(r, Head(rs).status), Tail(rs))

RECURSIVE CountAllDrip(_, _)
CountAllDrip(r, rs) ==
    IF rs = <<>> THEN r
    ELSE CountAllDrip(CountStatusDrip(r, Head(rs).status), Tail(rs))

Produced(section, o, r) == [section |-> section, orientation |-> o,
                            result |-> r]

\* The three maps of one call hold at most MaxEntries entries together.
\* The run reads edge_point_data first at line 528 and
\* drip_edge_measurements first at line 543; the model draws each of the
\* two arguments in the step before its first read, and until then the
\* variable keeps its idle value.
EntriesLeft ==
    MaxEntries - Len(chamfer_measurements) - Len(edge_point_data)

ChamferDicts(n) ==
    {[i \in 1..Len(d) |->
        <<d[i][1], ChamferMeasurement(d[i][1], d[i][2][1], d[i][2][2],
                                      d[i][2][3])>>] :
     d \in Dicts(ChamferSamples, n)}

\* drip_edge_measurements: None, or a dict with at least one entry (an empty
\* dict is as false as None at line 543)
DripArguments(n) ==
    {None} \cup UNION {{Some(d) : d \in Dicts(DripSamples, c)} : c \in 1..n}

\* validate_all(chamfer_measurements, edge_point_data,
\*              drip_edge_measurements): lines 477-485, the new report
CallValidateAll ==
    /\ pc = "idle"
    /\ \E a \in 0..MaxEntries :
         chamfer_measurements' \in ChamferDicts(a)
    /\ report' = EdgeValidationReport
    /\ all_chamfer_measurements' = <<>>
    /\ produced' = <<>>
    /\ idx' = 0
    /\ results' = <<>>
    /\ pc' = "chamfer"
    /\ UNCHANGED <<spec, edge_point_data, drip_edge_measurements, observed,
                   summary, call,
                   chamfer_spec, service>>

\* Variant: the loop variable stays on the first entry of the map.
CurrentChamfer_FirstEntry == chamfer_measurements[1]

\* the entry the chamfer loop is working on (line 486)
CurrentChamfer == chamfer_measurements[idx + 1]

\* lines 487-492: the loop takes the next entry; depth validation
ChamferDepth ==
    /\ pc = "chamfer"
    /\ idx < Len(chamfer_measurements)
    /\ LET depth_result == validate_depth(spec.c8_chamfer, CurrentChamfer[2])
       IN  /\ results' = <<depth_result>>
           /\ produced' = Append(produced,
                  Produced("chamfer", CurrentChamfer[1], depth_result))
    /\ report' = CountTotal(report, 1)
    /\ pc' = "chamfer_angle"
    /\ UNCHANGED <<spec, chamfer_measurements, edge_point_data,
                   drip_edge_measurements, idx, all_chamfer_measurements,
                   observed, summary, call,
                   chamfer_spec, service>>

\* lines 494-497: angle validation
ChamferAngle ==
    /\ pc = "chamfer_angle"
    /\ LET angle_result == validate_angle(spec.c8_chamfer, CurrentChamfer[2])
       IN  /\ results' = Append(results, angle_result)
           /\ produced' = Append(produced,
                  Produced("chamfer", CurrentChamfer[1], angle_result))
    /\ report' = CountTotal(report, 1)
    /\ pc' = "chamfer_roughness"
    /\ UNCHANGED <<spec, chamfer_measurements, edge_point_data,
                   drip_edge_measurements, idx, all_chamfer_measurements,
                   observed, summary, call,
                   chamfer_spec, service>>

\* lines 499-505: surface roughness; the results and the measurement are
\* stored
ChamferRoughness ==
    /\ pc = "chamfer_roughness"
    /\ LET roughness_result ==
               validate_surface_roughness(spec.c8_chamfer, CurrentChamfer[2])
           rs == Append(results, roughness_result)
       IN  /\ results' = rs
           /\ produced' = Append(produced,
                  Produced("chamfer", CurrentChamfer[1], roughness_result))
           /\ report' = [CountTotal(report, 1) EXCEPT
                  !.chamfer_results = Append(@, <<CurrentChamfer[1], rs>>)]
    /\ all_chamfer_measurements' =
           Append(all_chamfer_measurements, CurrentChamfer[2])
    /\ pc' = "chamfer_count"
    /\ UNCHANGED <<spec, chamfer_measurements, edge_point_data,
                   drip_edge_measurements, idx, observed, summary, call,
                   chamfer_spec, service>>

\* lines 507-514: the counters of the three results
ChamferCount ==
    /\ pc = "chamfer_count"
    /\ report' = CountAll(report, results)
    /\ idx' = idx + 1
    /\ pc' = "chamfer"
    /\ UNCHANGED <<spec, chamfer_measurements, edge_point_data,
                   drip_edge_measurements, results,
                   all_chamfer_measurements, produced, observed, summary,
                   call, chamfer_spec, service>>

\* Variant: the consistency check is left out of total_checks.
ProfileConsistency_NotCounted ==
    /\ pc = "chamfer"
    /\ idx = Len(chamfer_measurements)
    /\ LET consistency_result ==
               validate_profile_consistency(all_chamfer_measurements)
       IN  /\ report' = CountStatus(report, consistency_result.status)
           /\ produced' = Append(produced,
                  Produced("consistency", "", consistency_result))
    /\ \E b \in 0..EntriesLeft : edge_point_data' \in Dicts(EdgeSamples, b)
    /\ idx' = 0
    /\ pc' = "squareness"
    /\ UNCHANGED <<spec, chamfer_measurements, drip_edge_measurements,
                   results, all_chamfer_measurements, observed, summary,
                   call, chamfer_spec, service>>

\* lines 516-524: profile consistency across all edges, after the loop
ProfileConsistency ==
    /\ pc = "chamfer"
    /\ idx = Len(chamfer_measurements)
    /\ LET consistency_result ==
               validate_profile_consistency(all_chamfer_measurements)
       IN  /\ report' = CountStatus(CountTotal(report, 1),
                                    consistency_result.status)
           /\ produced' = Append(produced,
                  Produced("consistency", "", consistency_result))
    /\ \E b \in 0..EntriesLeft : edge_point_data' \in Dicts(EdgeSamples, b)
    /\ idx' = 0
    /\ pc' = "squareness"
    /\ UNCHANGED <<spec, chamfer_measurements, drip_edge_measurements,
                   results, all_chamfer_measurements, observed, summary,
                   call, chamfer_spec, service>>

CurrentEdge == edge_point_data[idx + 1]

\* Variant: the validator takes the points off the caller's list while it
\* reads them.
EdgeSquareness_ConsumesPoints ==
    /\ pc = "squareness"
    /\ idx < Len(edge_point_data)
    /\ \E svd \in SvdChoices :
         LET result == validate_edge_squareness(
                           spec.gdt_spec, CurrentEdge[2], reference_normal,
                           CurrentEdge[1], svd)
         IN  /\ report' = [CountStatus(CountTotal(report, 1), result.status)
                    EXCEPT !.squareness_results =
                               Append(@, <<CurrentEdge[1], result>>)]
             /\ produced' = Append(produced,
                    Produced("squareness", CurrentEdge[1], result))
    /\ edge_point_data' = [edge_point_data EXCEPT ![idx + 1][2] = <<>>]
    /\ idx' = idx + 1
    /\ UNCHANGED <<pc, spec, chamfer_measurements,
                   drip_edge_measurements, results,
                   all_chamfer_measurements, observed, summary, call,
                   chamfer_spec, service>>

\* lines 528-540: squareness of the next edge
EdgeSquareness ==
    /\ pc = "squareness"
    /\ idx < Len(edge_point_data)
    /\ \E svd \in SvdChoices :
         LET result == validate_edge_squareness(
                           spec.gdt_spec, CurrentEdge[2], reference_normal,
                           CurrentEdge[1], svd)
         IN  /\ report' = [CountStatus(CountTotal(report, 1), result.status)
                    EXCEPT !.squareness_results =
                               Append(@, <<CurrentEdge[1], result>>)]
             /\ produced' = Append(produced,
                    Produced("squareness", CurrentEdge[1], result))
    /\ idx' = idx + 1
    /\ UNCHANGED <<pc, spec, chamfer_measurements, edge_point_data,
                   drip_edge_measurements, results,
                   all_chamfer_measurements, observed, summary, call,
                   chamfer_spec, service>>

\* line 543: `if drip_edge_measurements and self.spec.drip_edges`
DripEnabled(measurements) ==
    /\ measurements # None
    /\ measurements.value # <<>>
    /\ spec.drip_edges # {}

\* the squareness loop is over: the drip-edge section starts
SquarenessDone ==
    /\ pc = "squareness"
    /\ idx = Len(edge_point_data)
    /\ drip_edge_measurements' \in DripArguments(EntriesLeft)
    /\ idx' = 0
    /\ results' = <<>>
    /\ pc' = IF DripEnabled(drip_edge_measurements') THEN "drip"
             ELSE "return"
    /\ UNCHANGED <<spec, chamfer_measurements, edge_point_data, report,
                   all_chamfer_measurements, produced, observed, summary,
                   call, chamfer_spec, service>>

CurrentDrip == drip_edge_measurements.value[idx + 1]

\* lines 544-549: the next entry; one without a drip-edge specification is
\* passed over
DripNext ==
    /\ pc = "drip"
    /\ idx < Len(drip_edge_measurements.value)
    /\ IF CurrentDrip[1] \in spec.drip_edges
       THEN pc' = "drip_overhang" /\ idx' = idx
       ELSE pc' = "drip" /\ idx' = idx + 1
    /\ results' = <<>>
    /\ UNCHANGED <<spec, chamfer_measurements, edge_point_data,
                   drip_edge_measurements, report,
                   all_chamfer_measurements, produced, observed, summary,
                   call, chamfer_spec, service>>

\* lines 551-561: overhang validation
DripOverhang ==
    /\ pc = "drip_overhang"
    /\ IF CurrentDrip[2].overhang_mm # None
       THEN LET result == validate_overhang_distance(
                              DripEdgeSpecification,
                              CurrentDrip[2].overhang_mm.value,
                              CurrentDrip[1])
            IN  /\ results' = Append(results, result)
                /\ report' = CountStatusDrip(CountTotal(report, 1),
                                             result.status)
                /\ produced' = Append(produced,
                       Produced("drip", CurrentDrip[1], result))
       ELSE UNCHANGED <<results, report, produced>>
    /\ pc' = "drip_position"
    /\ UNCHANGED <<spec, chamfer_measurements, edge_point_data,
                   drip_edge_measurements, idx, all_chamfer_measurements,
                   observed, summary, call,
                   chamfer_spec, service>>

\* lines 563-573: groove position validation; its exception ends the run
DripGroovePosition ==
    /\ pc = "drip_position"
    /\ IF CurrentDrip[2].groove_distance_from_edge_mm # None
       THEN LET result == validate_groove_position(
                              DripEdgeSpecification, spec.gdt_spec,
                              CurrentDrip[2].groove_distance_from_edge_mm.value,
                              CurrentDrip[1])
            IN  IF Raised(result)
                THEN /\ pc' = "raised"
                     /\ UNCHANGED <<results, report, produced>>
                ELSE /\ results' = Append(results, result)
                     /\ report' = CountStatusDrip(CountTotal(report, 1),
                                                  result.status)
                     /\ produced' = Append(produced,
                            Produced("drip", CurrentDrip[1], result))
                     /\ pc' = "drip_dimensions"
       ELSE /\ pc' = "drip_dimensions"
            /\ UNCHANGED <<results, report, produced>>
    /\ UNCHANGED <<spec, chamfer_measurements, edge_point_data,
                   drip_edge_measurements, idx, all_chamfer_measurements,
                   observed, summary, call,
                   chamfer_spec, service>>

\* lines 575-590: groove dimensions; the entry's results are stored
DripGrooveDimensions ==
    /\ pc = "drip_dimensions"
    /\ LET m == CurrentDrip[2]
           dim_results ==
               IF m.groove_width_mm # None /\ m.groove_depth_mm # None
               THEN validate_groove_dimensions(
                        DripEdgeSpecification, m.groove_width_mm.value,
                        m.groove_depth_mm.value, CurrentDrip[1])
               ELSE <<>>
           rs == results \o dim_results
       IN  /\ results' = rs
           /\ report' = [CountAllDrip(CountTotal(report, Len(dim_results)),
                                      dim_results)
                  EXCEPT !.drip_edge_results =
                             Append(@, <<CurrentDrip[1], rs>>)]
           /\ produced' = produced \o
                  [i \in 1..Len(dim_results) |->
                     Produced("drip", CurrentDrip[1], dim_results[i])]
    /\ idx' = idx + 1
    /\ pc' = "drip"
    /\ UNCHANGED <<spec, chamfer_measurements, edge_point_data,
                   drip_edge_measurements, all_chamfer_measurements,
                   observed, summary, call,
                   chamfer_spec, service>>

\* line 592: return report
Return ==
    /\ \/ pc = "return"
       \/ pc = "drip" /\ idx = Len(drip_edge_measurements.value)
    /\ pc' = "returned"
    /\ UNCHANGED <<spec, chamfer_measurements, edge_point_data,
                   drip_edge_measurements, report, idx, results,
                   all_chamfer_measurements, produced, observed, summary,
                   call, chamfer_spec, service>>

Counters(r) == <<r.total_checks, r.passed_checks, r.warning_checks,
                 r.failed_checks>>

\* The caller holds a report, returned by validate_all or constructed
\* directly, and reads its overall_status property.
ReadOverallStatus ==
    /\ pc \in {"idle", "returned"}
    /\ observed' = [status |-> overall_status(report),
                    counters_before |-> Counters(report)]
    /\ pc' = "read"
    /\ UNCHANGED <<spec, chamfer_measurements, edge_point_data,
                   drip_edge_measurements, report, idx, results,
                   all_chamfer_measurements, produced, summary, call,
                   chamfer_spec, service>>

StatusIcon(status) ==
    IF status = PASS THEN "[PASS]"
    ELSE IF status = WARN THEN "[WARN]"
    ELSE "[FAIL]"

ResultLine(r) == [kind |-> "result", icon |-> StatusIcon(r.status),
                  check_name |-> r.check_name]

RECURSIVE RecommendationLines(_)
RecommendationLines(recs) ==
    IF recs = <<>> THEN <<>>
    ELSE (IF Head(recs) # "" THEN <<[kind |-> "recommendation",
                                     text |-> Head(recs)]>>
          ELSE <<>>) \o RecommendationLines(Tail(recs))

\* lines 618-629: the lines of one orientation's chamfer results
RECURSIVE ChamferLines(_)
ChamferLines(rs) ==
    IF rs = <<>> THEN <<>>
    ELSE <<ResultLine(Head(rs))>>
         \o RecommendationLines(Head(rs).recommendations)
         \o ChamferLines(Tail(rs))

\* lines 650-657: the lines of one orientation's drip-edge results
RECURSIVE DripLines(_)
DripLines(rs) ==
    IF rs = <<>> THEN <<>>
    ELSE <<ResultLine(Head(rs))>> \o DripLines(Tail(rs))

OrientationLine(o) == [kind |-> "orientation", orientation |-> o]

RECURSIVE ChamferSection(_)
ChamferSection(d) ==
    IF d = <<>> THEN <<>>
    ELSE <<OrientationLine(Head(d)[1])>> \o ChamferLines(Head(d)[2])
         \o ChamferSection(Tail(d))

RECURSIVE SquarenessSection(_)
SquarenessSection(d) ==
    IF d = <<>> THEN <<>>
    ELSE <<ResultLine(Head(d)[2])>> \o SquarenessSection(Tail(d))

RECURSIVE DripSection(_)
DripSection(d) ==
    IF d = <<>> THEN <<>>
    ELSE <<OrientationLine(Head(d)[1])>> \o DripLines(Head(d)[2])
         \o DripSection(Tail(d))

Heading(text) == [kind |-> "heading", text |-> text]

\* generate_report_summary(report): the text as a record of its header
\* fields and the sequence of its section lines, or the exception of the
\* percentage computation
generate_report_summary(r) ==
    IF r.total_checks = 0 THEN ZeroDivisionError
    ELSE [overall_status |-> overall_status(r),
          total_checks |-> r.total_checks,
          passed_pct |-> Rat(r.passed_checks * 100, r.total_checks),
          warning_pct |-> Rat(r.warning_checks * 100, r.total_checks),
          failed_pct |-> Rat(r.failed_checks * 100, r.total_checks),
          lines |->
              (IF r.chamfer_results # <<>>
               THEN <<Heading("CHAMFER VALIDATION:")>>
                    \o ChamferSection(r.chamfer_results)
               ELSE <<>>)
              \o (IF r.squareness_results # <<>>
                  THEN <<Heading("EDGE SQUARENESS VALIDATION:")>>
                       \o SquarenessSection(r.squareness_results)
                  ELSE <<>>)
              \o (IF r.drip_edge_results # <<>>
                  THEN <<Heading("DRIP EDGE VALIDATION:")>>
                       \o DripSection(r.drip_edge_results)
                  ELSE <<>>)]

\* The caller formats a report it holds.
GenerateReportSummary ==
    /\ pc \in {"idle", "returned"}
    /\ summary' = generate_report_summary(report)
    /\ pc' = "summarised"
    /\ UNCHANGED <<spec, chamfer_measurements, edge_point_data,
                   drip_edge_measurements, report, idx, results,
                   all_chamfer_measurements, produced, observed, call,
                   chamfer_spec, service>>

Next ==
    \/ CallValidateAll
    \/ ChamferDepth
    \/ ChamferAngle
    \/ ChamferRoughness
    \/ ChamferCount
    \/ ProfileConsistency
    \/ EdgeSquareness
    \/ SquarenessDone
    \/ DripNext
    \/ DripOverhang
    \/ DripGroovePosition
    \/ DripGrooveDimensions
    \/ Return
    \/ ReadOverallStatus
    \/ GenerateReportSummary

Spec == Init /\ [][Next]_vars

-----------------------------------------------------------------------------
(* SpecC: a ChamferSpecification object *)

\* Nominal depths and inclusive angles (tenths) an object is given.
ChamferDepths == {DefaultDepth + 10 * k : k \in (0 - MaxTol)..MaxTol}
ChamferAngles == {300, DefaultAngle, 600, 900}

\* 1000 * math.tan(math.radians(angle_degrees / 2)), rounded, for the
\* angles of ChamferAngles: tan 15, tan 22.5, tan 30, tan 45 degrees.
TanHalfAngleMilli(angle_degrees) ==
    CASE angle_degrees = 300 -> 268
      [] angle_degrees = 450 -> 414
      [] angle_degrees = 600 -> 577
      [] angle_degrees = 900 -> 1000

\* depth_mm * math.tan(half_angle_rad) * 2
ChamferWidth(depth_mm, angle_degrees) ==
    Rat(depth_mm * TanHalfAngleMilli(angle_degrees) * 2, 1000)

\* ChamferSpecification.__post_init__: width_mm is computed, whatever was
\* passed for it
post_init(self) ==
    [self EXCEPT !.width_mm = ChamferWidth(self.depth_mm, self.angle_degrees)]

\* ChamferSpecification(depth_mm=..., angle_degrees=..., width_mm=...)
ConstructChamferSpecification ==
    /\ chamfer_spec = None
    /\ \E depth \in ChamferDepths, angle \in ChamferAngles,
          width \in {None} \cup {RInt(w) : w \in {0, DefaultDepth}} :
         chamfer_spec' = post_init(
             [depth_mm |-> depth, angle_degrees |-> angle,
              width_mm |-> width, tolerance_mm |-> DefaultToleranceMm,
              surface_roughness_ra |-> DefaultRoughnessRa])
    /\ UNCHANGED <<engineVars, call, service>>

\* spec.depth_mm = depth: the dataclass is not frozen, the attribute is set
SetDepthMm ==
    /\ chamfer_spec # None
    /\ \E depth \in ChamferDepths :
         chamfer_spec' = [chamfer_spec EXCEPT !.depth_mm = depth]
    /\ UNCHANGED <<engineVars, call, service>>

\* spec.angle_degrees = angle
SetAngleDegrees ==
    /\ chamfer_spec # None
    /\ \E angle \in ChamferAngles :
         chamfer_spec' = [chamfer_spec EXCEPT !.angle_degrees = angle]
    /\ UNCHANGED <<engineVars, call, service>>

NextC ==
    \/ ConstructChamferSpecification
    \/ SetDepthMm
    \/ SetAngleDegrees

SpecC == InitV /\ [][NextC]_vars

-----------------------------------------------------------------------------
(* SpecS: generate_drawing and process_slab_file of the CAD service *)

\* A Python exception, and the dicts the service returns.
Exception(type, message) == [type |-> type, message |-> message]
Failure(message) == [success |-> FALSE, error |-> message]
Drawing ==
    [success |-> TRUE, svg |-> "base64", dxf_filename |-> "drawing.dxf",
     data |-> "dims and material"]

\* How a call ended for its caller.
Returned(value) == [returned |-> value]
Propagated(exc) == [raised |-> exc]

\* What json.load gives for the uploaded file: the file is missing, is not
\* UTF-8 text, is not JSON, holds a JSON object, holds another JSON value.
FileKinds == {"missing", "not_utf8", "invalid_json", "object", "array"}

\* The config argument: a dict, or another value (a JSON array).
ConfigKinds == {"object", "array"}

\* The module after import, with _CAD_AVAILABLE as the import left it.
ServiceLoaded(available) ==
    [pc |-> "idle", available |-> available, calls |-> 0, entry |-> "none",
     file |-> "none", config |-> "none", created |-> 0, dirs |-> {},
     tmp_dir |-> None, svg |-> FALSE, pending |-> None, outcome |-> None]

InitS ==
    /\ EngineIdle
    /\ call = NoCall
    /\ chamfer_spec = None
    /\ service \in {ServiceLoaded(a) : a \in BOOLEAN}

ServiceActive == service # None

\* generate_drawing ends with `outcome`: for its caller, or inside
\* process_slab_file, whose line 98 returns the value and whose line 99
\* catches an OSError.
EndGenerateDrawing(sv, outcome) ==
    LET seen ==
            IF sv.entry = "process_slab_file" /\ "raised" \in DOMAIN outcome
               /\ outcome.raised.type = "OSError"
            THEN Returned(Failure(outcome.raised.message))
            ELSE outcome
    IN  [sv EXCEPT !.pc = "idle", !.outcome = seen, !.tmp_dir = None,
                   !.svg = FALSE, !.pending = None]

\* await generate_drawing(config)
CallGenerateDrawing ==
    /\ ServiceActive
    /\ service.pc = "idle"
    /\ service.calls < MaxCalls
    /\ \E config \in ConfigKinds :
         service' = [service EXCEPT !.pc = "gd_available",
                                    !.calls = @ + 1,
                                    !.entry = "generate_drawing",
                                    !.file = "none", !.config = config,
                                    !.outcome = None]
    /\ UNCHANGED <<engineVars, call, chamfer_spec>>

\* await process_slab_file(file_path)
CallProcessSlabFile ==
    /\ ServiceActive
    /\ service.pc = "idle"
    /\ service.calls < MaxCalls
    /\ \E file \in FileKinds :
         service' = [service EXCEPT !.pc = "psf_open",
                                    !.calls = @ + 1,
                                    !.entry = "process_slab_file",
                                    !.file = file, !.config = "none",
                                    !.outcome = None]
    /\ UNCHANGED <<engineVars, call, chamfer_spec>>

\* line 96: open(file_path); a missing file is an OSError, caught at line 99
PsfOpen ==
    /\ ServiceActive
    /\ service.pc = "psf_open"
    /\ service' =
         IF service.file = "missing"
         THEN [service EXCEPT
                  !.pc = "idle",
                  !.outcome = Returned(Failure("No such file or directory"))]
         ELSE [service EXCEPT !.pc = "psf_load"]
    /\ UNCHANGED <<engineVars, call, chamfer_spec>>

\* line 97: json.load(fh).  A JSONDecodeError is caught at line 99; a
\* UnicodeDecodeError of the utf-8 reader is a ValueError that line 99 does
\* not name; otherwise line 98 calls generate_drawing(config).
PsfLoad ==
    /\ ServiceActive
    /\ service.pc = "psf_load"
    /\ service' =
         IF service.file = "invalid_json"
         THEN [service EXCEPT
                  !.pc = "idle",
                  !.outcome = Returned(Failure("Expecting value"))]
         ELSE IF service.file = "not_utf8"
         THEN [service EXCEPT
                  !.pc = "idle",
                  !.outcome = Propagated(Exception("UnicodeDecodeError",
                                  "'utf-8' codec can't decode byte"))]
         ELSE [service EXCEPT !.pc = "gd_available",
                              !.config = service.file]
    /\ UNCHANGED <<engineVars, call, chamfer_spec>>

\* lines 48-53: the engine was not importable
GdAvailable ==
    /\ ServiceActive
    /\ service.pc = "gd_available"
    /\ service' =
         IF ~service.available
         THEN EndGenerateDrawing(service,
                  Returned(Failure("CAD engine unavailable")))
         ELSE [service EXCEPT !.pc = "gd_mkdtemp"]
    /\ UNCHANGED <<engineVars, call, chamfer_spec>>

\* line 56: tempfile.mkdtemp creates a new directory, or raises OSError
\* (no usable temporary directory) before the try block is entered
GdMkdtemp ==
    /\ ServiceActive
    /\ service.pc = "gd_mkdtemp"
    /\ \/ service' = [service EXCEPT
                         !.pc = "gd_run_cad",
                         !.created = @ + 1,
                         !.dirs = @ \cup {service.created + 1},
                         !.tmp_dir = Some(service.created + 1)]
       \/ service' = EndGenerateDrawing(service,
                         Propagated(Exception("OSError",
                             "No usable temporary directory found")))
    /\ UNCHANGED <<engineVars, call, chamfer_spec>>

\* lines 61-62: the engine runs in the executor: it writes the SVG, or
\* raises (line 82 catches it), or returns without an SVG file
GdRunCad ==
    /\ ServiceActive
    /\ service.pc = "gd_run_cad"
    /\ \/ service' = [service EXCEPT !.pc = "gd_read_svg", !.svg = TRUE]
       \/ service' = [service EXCEPT !.pc = "gd_read_svg", !.svg = FALSE]
       \/ service' = [service EXCEPT
                         !.pc = "gd_finally",
                         !.pending = Some(Failure("CAD engine crash"))]
    /\ UNCHANGED <<engineVars, call, chamfer_spec>>

\* lines 65-66: the SVG is read; a missing file is caught at line 82
GdReadSvg ==
    /\ ServiceActive
    /\ service.pc = "gd_read_svg"
    /\ service' =
         IF service.svg
         THEN [service EXCEPT !.pc = "gd_build"]
         ELSE [service EXCEPT
                  !.pc = "gd_finally",
                  !.pending = Some(Failure("No such file or directory"))]
    /\ UNCHANGED <<engineVars, call, chamfer_spec>>

\* lines 68-81: config.get(...) and the result; a config that is not a dict
\* has no `get`, the AttributeError is caught at line 82
GdBuild ==
    /\ ServiceActive
    /\ service.pc = "gd_build"
    /\ service' =
         [service EXCEPT
             !.pc = "gd_finally",
             !.pending =
                 IF service.config = "object" THEN Some(Drawing)
                 ELSE Some(Failure("object has no attribute 'get'"))]
    /\ UNCHANGED <<engineVars, call, chamfer_spec>>

\* Variant: the temporary directory is left behind.
GdFinally_KeepsDirectory ==
    /\ ServiceActive
    /\ service.pc = "gd_finally"
    /\ service' = EndGenerateDrawing(service, Returned(service.pending.value))
    /\ UNCHANGED <<engineVars, call, chamfer_spec>>

\* lines 84-85: shutil.rmtree(tmp_dir, ignore_errors=True), then the return
\* of line 71 or 83
GdFinally ==
    /\ ServiceActive
    /\ service.pc = "gd_finally"
    /\ service' = EndGenerateDrawing(
                      [service EXCEPT !.dirs = @ \ {service.tmp_dir.value}],
                      Returned(service.pending.value))
    /\ UNCHANGED <<engineVars, call, chamfer_spec>>

NextS ==
    \/ CallGenerateDrawing
    \/ CallProcessSlabFile
    \/ PsfOpen
    \/ PsfLoad
    \/ GdAvailable
    \/ GdMkdtemp
    \/ GdRunCad
    \/ GdReadSvg
    \/ GdBuild
    \/ GdFinally

SpecS == InitS /\ [][NextS]_vars

-----------------------------------------------------------------------------
(* SpecL: optimize_layout of the API (backend/app/api/cad.py) *)

\* Slab and item dimensions are whole millimetres here; the efficiency is
\* counted in tenths of a percent, the unit round(..., 1) keeps.
MaxItems == 2

DefaultSlabLength == 300
DefaultSlabWidth == 200
DefaultItemSize == 60
DefaultKerfWidth == 5

\* d.get(key, default), the value of a key being None when the key is absent.
DictGet(value, default) == IF value = None THEN default ELSE value.value

\* round(n / d * 1000) for n >= 0 and d > 0, ties going to the even integer.
RoundHalfEven(n, d) ==
    LET q == n \div d
        r == n % d
    IN  IF 2 * r < d THEN q
        ELSE IF 2 * r > d THEN q + 1
        ELSE IF q % 2 = 0 THEN q ELSE q + 1

\* The requests the endpoint is called with.
SlabSizes == {None, Some(0), Some(100)}
ItemSizes == {None, Some(50), Some(250), Some(400)}
KerfWidths == {0, DefaultKerfWidth}
ItemLists ==
    UNION {{[i \in 1..n |-> [id |-> i, dims |-> d[i]]] :
                d \in [1..n -> [width : ItemSizes, length : ItemSizes]]} :
           n \in 0..MaxItems}
LayoutOptimizationRequest ==
    [slab_dimensions : [length : SlabSizes, width : SlabSizes],
     items : ItemLists, kerf_width : KerfWidths]

\* The placement loop: the positions of `items`, the loop variables being
\* current_x, current_y and row_height before the first of them.
RECURSIVE Place(_, _, _, _, _)
Place(request, items, current_x, current_y, row_height) ==
    IF items = <<>> THEN <<>>
    ELSE
        LET item == Head(items)
            item_width == DictGet(item.dims.width, DefaultItemSize)
            item_length == DictGet(item.dims.length, DefaultItemSize)
            next_row ==
                current_x + item_width
                    > DictGet(request.slab_dimensions.width, DefaultSlabWidth)
            x == IF next_row THEN 0 ELSE current_x
            y == IF next_row THEN current_y + row_height + request.kerf_width
                 ELSE current_y
            h == IF next_row THEN 0 ELSE row_height
            position ==
                [itemId |-> item.id, position |-> [x |-> x, y |-> y],
                 rotation |-> 0,
                 fits |-> y + item_length
                     <= DictGet(request.slab_dimensions.length,
                                DefaultSlabLength)]
        IN  <<position>> \o
            Place(request, Tail(items), x + item_width + request.kerf_width,
                  y, IF h < item_length THEN item_length ELSE h)

RECURSIVE UsedArea(_)
UsedArea(items) ==
    IF items = <<>> THEN 0
    ELSE DictGet(Head(items).dims.width, DefaultItemSize)
             * DictGet(Head(items).dims.length, DefaultItemSize)
         + UsedArea(Tail(items))

optimize_layout(request) ==
    LET slab_area ==
            DictGet(request.slab_dimensions.length, DefaultSlabLength)
                * DictGet(request.slab_dimensions.width, DefaultSlabWidth)
        positions == Place(request, request.items, 0, 0, 0)
        used_area == UsedArea(request.items)
    IN  [success |-> TRUE,
         result |->
            [layout |-> positions,
             efficiency |->
                IF slab_area > 0
                THEN RoundHalfEven(used_area * 1000, slab_area) ELSE 0,
             total_items |-> Len(request.items),
             fits_all |-> \A i \in 1..Len(positions) : positions[i].fits]]

CallOptimizeLayout ==
    \E request \in LayoutOptimizationRequest :
        call' = [op |-> "optimize_layout", request |-> request,
                 response |-> optimize_layout(request)]

NextL ==
    /\ call = NoCall
    /\ CallOptimizeLayout
    /\ UNCHANGED <<engineVars, chamfer_spec, service>>

SpecL == InitV /\ [][NextL]_vars

-----------------------------------------------------------------------------
(* Properties of the validators (SpecV) *)

Called(op) == call.op = op

\* The ValidationResults the last call returned.
CallResults ==
    IF call = NoCall THEN {}
    ELSE IF Called("validate_groove_dimensions")
    THEN {call.result[i] : i \in 1..Len(call.result)}
    ELSE IF Raised(call.result) THEN {}
    ELSE {call.result}

\* The last call ended in an exception instead of returning.
CallRaised ==
    /\ call # NoCall
    /\ ~Called("validate_groove_dimensions")
    /\ Raised(call.result)

DepthDeviation == Abs(call.measurement.depth_mm - call.spec.depth_mm)

\* C2: validate_depth returns Pass iff d <= tol, Warn iff tol < d <= 2*tol
\* and Fail iff d > 2*tol, where d = |measured depth - nominal depth|.
C2_DepthThreeTier ==
    Called("validate_depth") =>
        LET d == DepthDeviation
            tol == call.spec.tolerance_mm
            st == call.result.status
        IN  /\ st = PASS <=> d <= tol
            /\ st = WARN <=> (tol < d /\ d <= 2 * tol)
            /\ st = FAIL <=> d > 2 * tol

\* A depth check exactly on the upper boundary 2*tol, classified Warn.
C2_Witness ==
    /\ Called("validate_depth")
    /\ call.spec.tolerance_mm > 0
    /\ DepthDeviation = 2 * call.spec.tolerance_mm
    /\ call.result.status = WARN

\* C5: no feature validator raises; each call returns a ValidationResult
\* (validate_groove_dimensions: two), also when a tolerance is 0.
C5_ValidatorsNeverRaise ==
    /\ ~CallRaised
    /\ call # NoCall => CallResults # {}

\* C7: compliance_percentage is 100 if and only if the deviation is 0, for
\* every result a validator returns.
C7_FullComplianceIffNoDeviation ==
    \A r \in CallResults :
        REq(r.compliance_percentage, RInt(100)) <=> REq(r.deviation, RInt(0))

\* C8: compliance_percentage of every returned result lies in [0, 100].
C8_ComplianceInRange ==
    \A r \in CallResults :
        /\ RLe(RInt(0), r.compliance_percentage)
        /\ RLe(r.compliance_percentage, RInt(100))

\* An overhang check whose deviation exceeds the tolerance: the compliance
\* is clamped to 0.
C8_Witness ==
    /\ Called("validate_overhang_distance")
    /\ RLt(RInt(call.result.tolerance), call.result.deviation)
    /\ REq(call.result.compliance_percentage, RInt(0))

RoughnessDeviation ==
    Abs(call.measurement.roughness_ra.value
        - call.spec.surface_roughness_ra)

\* C9: validate_surface_roughness never returns Fail: NotChecked with the
\* one remediation when there is no reading, otherwise Pass iff the
\* deviation is at most 0.5 and Warn for every larger deviation.
C9_RoughnessHasNoFailTier ==
    Called("validate_surface_roughness") =>
        /\ call.result.status # FAIL
        /\ IF call.measurement.roughness_ra = None
           THEN /\ call.result.status = NOT_CHECKED
                /\ call.result.recommendations =
                       <<"Perform surface roughness measurement">>
           ELSE call.result.status =
                    (IF RoughnessDeviation <= 5 THEN PASS ELSE WARN)

\* A roughness reading more than two tolerances off, classified Warn.
C9_Witness ==
    /\ Called("validate_surface_roughness")
    /\ call.measurement.roughness_ra # None
    /\ RoughnessDeviation > 10
    /\ call.result.status = WARN

\* C10: the groove checks are binary.  validate_groove_position returns
\* Pass iff the deviation is within position_tolerance_mm and Warn
\* otherwise; validate_groove_dimensions returns the width result, then the
\* depth result, each Pass iff its own deviation is at most 0.5 and Warn
\* otherwise.
C10_GrooveChecksBinary ==
    /\ Called("validate_groove_position") =>
           /\ ~CallRaised
           /\ call.result.status =
                  (IF Abs(call.measured - call.spec.distance_from_edge_mm)
                        <= call.gdt_spec.position_tolerance_mm
                   THEN PASS ELSE WARN)
    /\ Called("validate_groove_dimensions") =>
           /\ Len(call.result) = 2
           /\ call.result[1].check_name[1] = "Drip Groove Width"
           /\ call.result[2].check_name[1] = "Drip Groove Depth"
           /\ call.result[1].status =
                  (IF Abs(call.measured_width - call.spec.groove_width_mm)
                        <= 5
                   THEN PASS ELSE WARN)
           /\ call.result[2].status =
                  (IF Abs(call.measured_depth - call.spec.groove_depth_mm)
                        <= 5
                   THEN PASS ELSE WARN)

\* n^2 times the population variance of xs (an integer): the standard
\* deviation of xs is at most t exactly when this is at most (n * t)^2.
ScaledVariance(xs) ==
    LET n == Len(xs)
        sum == SumSeq(xs)
        sumsq == SumSeq([i \in 1..n |-> xs[i] * xs[i]])
    IN  n * sumsq - sum * sum

\* max(depth_std, angle_std / 10) <= t tenths of a millimetre
SpreadWithin(ms, t) ==
    LET n == Len(ms)
    IN  /\ ScaledVariance([i \in 1..n |-> ms[i].depth_mm]) <= n * n * t * t
        /\ ScaledVariance([i \in 1..n |-> ms[i].angle_degrees])
               <= n * n * t * t * 100

\* C11: validate_profile_consistency returns NotChecked for 0 or 1
\* measurements whatever they hold; for 2 or more it never returns
\* NotChecked and classifies max(depth_std, angle_std/10) against 0.1:
\* Pass up to 0.1, Warn up to 0.2, Fail above.
C11_ProfileConsistencyTiers ==
    Called("validate_profile_consistency") =>
        LET ms == call.measurements
            st == call.result.status
        IN  IF Len(ms) < 2 THEN st = NOT_CHECKED
            ELSE /\ st # NOT_CHECKED
                 /\ st = PASS <=> SpreadWithin(ms, 1)
                 /\ st = WARN <=> (~SpreadWithin(ms, 1) /\ SpreadWithin(ms, 2))
                 /\ st = FAIL <=> ~SpreadWithin(ms, 2)

\* A consistency check of exactly one measurement, off nominal in depth and
\* angle, answered NotChecked.
C11_Witness ==
    /\ Called("validate_profile_consistency")
    /\ Len(call.measurements) = 1
    /\ call.measurements[1].depth_mm # DefaultDepth
    /\ call.measurements[1].angle_degrees # DefaultAngle
    /\ call.result.status = NOT_CHECKED

AngleDeviation ==
    Abs(call.measurement.angle_degrees - call.spec.angle_degrees)

\* C18: validate_angle returns Pass iff the angle deviation is at most 0.5
\* degrees, Warn iff it is above 0.5 and at most 1.0, Fail iff it is above
\* 1.0, whatever the chamfer specification's tolerance_mm is (the validator
\* is given no GD&T specification); the result carries remediation strings
\* iff it is Fail.
C18_AngleFixedTolerance ==
    Called("validate_angle") =>
        LET d == AngleDeviation
            st == call.result.status
        IN  /\ st = PASS <=> d <= 5
            /\ st = WARN <=> (5 < d /\ d <= 10)
            /\ st = FAIL <=> d > 10
            /\ call.result.tolerance = 5
            /\ call.result.recommendations # <<>> <=> st = FAIL

\* An angle exactly 1.0 degree off, checked under a specification whose
\* depth tolerance is 0: Warn, without remediation.
C18_Witness ==
    /\ Called("validate_angle")
    /\ call.spec.tolerance_mm = 0
    /\ AngleDeviation = 10
    /\ call.result.status = WARN
    /\ call.result.recommendations = <<>>

\* The points are not all the same and every one lies on the line through
\* the first point in the direction of the reference normal.
AlongReferenceNormal(edge_points) ==
    /\ \E i \in 1..Len(edge_points) : edge_points[i] # edge_points[1]
    /\ \A i \in 1..Len(edge_points) :
          Cross(Vec(edge_points[1], edge_points[i]), reference_normal)
              = ZeroVec

PerpendicularToReferenceNormal(edge_points) ==
    /\ \E i \in 1..Len(edge_points) : edge_points[i] # edge_points[1]
    /\ \A i \in 1..Len(edge_points) :
          Dot(Vec(edge_points[1], edge_points[i]), reference_normal) = 0

\* C26: an edge that is exactly perpendicular to the reference normal (dot
\* product 0) has a perpendicularity deviation of 0 and is classified Pass.
C26_PerpendicularEdgePasses ==
    (/\ Called("validate_edge_squareness")
     /\ Len(call.edge_points) >= 2
     /\ PerpendicularToReferenceNormal(call.edge_points)) =>
        /\ REq(call.result.deviation, RInt(0))
        /\ call.result.status = PASS

\* The validators that classify a deviation as Pass, Warn or Fail.
ThreeTierOps ==
    {"validate_depth", "validate_angle", "validate_edge_squareness",
     "validate_overhang_distance", "validate_profile_consistency"}

\* C29: for the three-tier validators and every tolerance from 0 up, a Warn
\* or Fail result has compliance 0, and a result with compliance above 0 is
\* Pass.
C29_ComplianceZeroOutsideTolerance ==
    (call.op \in ThreeTierOps /\ ~CallRaised) =>
        /\ call.result.status \in {WARN, FAIL}
               => REq(call.result.compliance_percentage, RInt(0))
        /\ RLt(RInt(0), call.result.compliance_percentage)
               => call.result.status = PASS

-----------------------------------------------------------------------------
(* Properties of validate_all and of the report (Spec) *)

ProducedStatuses == {produced[i].result.status : i \in 1..Len(produced)}

\* Fail > Warn > Pass > NotChecked over a set of statuses
Aggregate(statuses) ==
    IF FAIL \in statuses THEN FAIL
    ELSE IF WARN \in statuses THEN WARN
    ELSE IF PASS \in statuses THEN PASS
    ELSE NOT_CHECKED

\* C1: the overall_status of the report validate_all returns is the
\* aggregate of the statuses of all results produced during the run: Fail if
\* any is Fail, else Warn if any is Warn, else Pass if any is Pass, else
\* NotChecked.
C1_OverallStatusAggregatesResults ==
    pc = "returned" => overall_status(report) = Aggregate(ProducedStatuses)

\* C3: overall_status is Fail iff failed_checks > 0, Warn iff there is no
\* failure and a warning, Pass iff there is neither and a pass, NotChecked
\* otherwise; reading it leaves the counters as they were.
C3_OverallStatusFromCounters ==
    observed # None =>
        LET st == observed.status
            f == report.failed_checks
            w == report.warning_checks
            p == report.passed_checks
        IN  /\ st = FAIL <=> f > 0
            /\ st = WARN <=> (f = 0 /\ w > 0)
            /\ st = PASS <=> (f = 0 /\ w = 0 /\ p > 0)
            /\ st = NOT_CHECKED <=> (f = 0 /\ w = 0 /\ p = 0)
            /\ Counters(report) = observed.counters_before

\* The status of a report with failures, warnings and passes was read.
C3_Witness ==
    /\ observed # None
    /\ observed.status = FAIL
    /\ report.warning_checks > 0
    /\ report.passed_checks > 0

\* C4: generate_report_summary of a report with total_checks = 0 returns a
\* text whose percentages are 0; it does not end in a division by zero.
C4_SummaryOfEmptyReport ==
    (pc = "summarised" /\ report.total_checks = 0) =>
        /\ ~Raised(summary)
        /\ summary.passed_pct.n = 0
        /\ summary.warning_pct.n = 0
        /\ summary.failed_pct.n = 0

\* C6: an edge point sequence with fewer than 2 points is never classified
\* Pass, Warn or Fail: its squareness check is skipped or NotChecked.
C6_ShortEdgeIsNotClassified ==
    \A i \in 1..Len(report.squareness_results) :
        Len(edge_point_data[i][2]) < 2 =>
            report.squareness_results[i][2].status = NOT_CHECKED

\* validate_all has ended, by returning its report or by an exception.
RunEnded == pc \in {"returned", "raised", "read", "summarised"}

\* The names of the drip-edge results the run produced for orientation o.
DripResultNames(o) ==
    {produced[i].result.check_name[1] :
        i \in {j \in 1..Len(produced) :
                  /\ produced[j].section = "drip"
                  /\ produced[j].orientation = o}}

\* C12: when validate_all has ended, every orientation of
\* drip_edge_measurements that has a drip-edge specification has an overhang
\* result iff it has an overhang reading, a groove-position result iff it
\* has a distance-from-edge reading, and the width and depth results iff it
\* has both a width and a depth reading; an orientation without a drip-edge
\* specification has no result; total_checks counts the produced results
\* and nothing else.
C12_DripChecksGuardedIndependently ==
    (RunEnded /\ drip_edge_measurements # None) =>
        /\ \A i \in 1..Len(drip_edge_measurements.value) :
              LET o == drip_edge_measurements.value[i][1]
                  m == drip_edge_measurements.value[i][2]
                  names == DripResultNames(o)
                  both == m.groove_width_mm # None /\ m.groove_depth_mm # None
              IN  IF o \in spec.drip_edges
                  THEN /\ "Drip Edge Overhang" \in names
                              <=> m.overhang_mm # None
                       /\ "Drip Groove Position" \in names
                              <=> m.groove_distance_from_edge_mm # None
                       /\ "Drip Groove Width" \in names <=> both
                       /\ "Drip Groove Depth" \in names <=> both
                  ELSE names = {}
        /\ report.total_checks = Len(produced)

\* The loop a call under way is in has an entry to work on or is over: the
\* statement at pc can be taken.
LoopIndexInRange ==
    /\ pc = "chamfer" => idx <= Len(chamfer_measurements)
    /\ pc \in {"chamfer_angle", "chamfer_roughness", "chamfer_count"}
          => idx < Len(chamfer_measurements)
    /\ pc = "squareness" => idx <= Len(edge_point_data)
    /\ pc = "drip" => idx <= Len(drip_edge_measurements.value)
    /\ pc \in {"drip_overhang", "drip_position", "drip_dimensions"}
          => idx < Len(drip_edge_measurements.value)

\* C13: validate_all never ends in an exception and a call under way can
\* always take its next statement, so every call ends by returning its
\* report (each loop runs over a finite map); a returned report none of
\* whose results is Pass, Warn or Fail has overall_status NotChecked.
C13_AlwaysReturnsReport ==
    /\ pc # "raised"
    /\ LoopIndexInRange
    /\ (pc = "returned" /\ ProducedStatuses \subseteq {NOT_CHECKED})
           => overall_status(report) = NOT_CHECKED

\* The positions in the run's history at which the cross-edge consistency
\* check was made.
ConsistencyIndexes ==
    {i \in 1..Len(produced) : produced[i].section = "consistency"}

\* The measurements of the chamfer map, in its order.
SuppliedChamferMeasurements ==
    [i \in 1..Len(chamfer_measurements) |-> chamfer_measurements[i][2]]

\* The number of results of the run so far that are Pass, Warn or Fail.
ClassifiedSoFar ==
    Cardinality({i \in 1..Len(produced) :
                    produced[i].result.status # NOT_CHECKED})

\* C14: a run makes the cross-edge consistency check exactly once: never
\* twice, and once by the time the squareness loop starts; it comes after
\* the three checks of every chamfer orientation and before every
\* squareness check, all chamfer results are counted when the squareness
\* loop runs, and its result is the one of validate_profile_consistency on
\* all the chamfer measurements supplied to the run.
C14_ConsistencyOnceBetweenLoops ==
    /\ Cardinality(ConsistencyIndexes) <= 1
    /\ pc \in {"squareness", "drip", "drip_overhang", "drip_position",
               "drip_dimensions", "return", "returned", "raised"}
          => Cardinality(ConsistencyIndexes) = 1
    /\ \A k \in ConsistencyIndexes :
          /\ k = 3 * Len(chamfer_measurements) + 1
          /\ \A i \in 1..(k - 1) : produced[i].section = "chamfer"
          /\ \A i \in (k + 1)..Len(produced) :
                produced[i].section \in {"squareness", "drip"}
          /\ produced[k].result =
                validate_profile_consistency(SuppliedChamferMeasurements)
    /\ pc = "squareness" =>
          /\ report.total_checks = Len(produced)
          /\ report.passed_checks + report.warning_checks
                + report.failed_checks = ClassifiedSoFar

\* A run over one chamfer and one edge has made the three chamfer checks,
\* then the consistency check, then the squareness check.
C14_Witness ==
    /\ pc = "squareness"
    /\ Len(chamfer_measurements) = 1
    /\ Len(produced) = 5
    /\ produced[4].section = "consistency"
    /\ produced[5].section = "squareness"

\* What the checks of one entry return, as a function of that entry alone.
ChamferResultsOf(m) ==
    <<validate_depth(spec.c8_chamfer, m),
      validate_angle(spec.c8_chamfer, m),
      validate_surface_roughness(spec.c8_chamfer, m)>>

SquarenessResultsOf(o, points) ==
    {validate_edge_squareness(spec.gdt_spec, points, reference_normal, o, svd) :
        svd \in SvdChoices}

DripResultsOf(o, m) ==
    (IF m.overhang_mm # None
     THEN <<validate_overhang_distance(DripEdgeSpecification,
                                       m.overhang_mm.value, o)>>
     ELSE <<>>)
    \o (IF m.groove_distance_from_edge_mm # None
        THEN <<validate_groove_position(
                   DripEdgeSpecification, spec.gdt_spec,
                   m.groove_distance_from_edge_mm.value, o)>>
        ELSE <<>>)
    \o (IF m.groove_width_mm # None /\ m.groove_depth_mm # None
        THEN validate_groove_dimensions(
                 DripEdgeSpecification, m.groove_width_mm.value,
                 m.groove_depth_mm.value, o)
        ELSE <<>>)

\* The entry of orientation o in a map kept as a sequence of pairs.
EntryOf(d, o) == d[CHOOSE i \in 1..Len(d) : d[i][1] = o][2]
KeysOf(d) == {d[i][1] : i \in 1..Len(d)}

\* A sequence in the order given by the permutation p of its indexes.
Reordered(q, p) == [i \in 1..Len(q) |-> q[p[i]]]

\* The statuses of all results of a report's map of result lists, and the
\* number of them that are st.
RECURSIVE StatusesOf(_)
StatusesOf(d) ==
    IF d = <<>> THEN <<>>
    ELSE [i \in 1..Len(Head(d)[2]) |-> Head(d)[2][i].status]
         \o StatusesOf(Tail(d))

CountOf(statuses, st) ==
    Cardinality({i \in 1..Len(statuses) : statuses[i] = st})

ChamferLoopPcs ==
    {"chamfer", "chamfer_angle", "chamfer_roughness", "chamfer_count"}

EdgePointsRead == pc \notin {"idle"} \cup ChamferLoopPcs
DripMeasurementsRead == pc \notin {"idle", "squareness"} \cup ChamferLoopPcs

\* C16: no statement of validate_all, and no validator it calls, changes
\* the engine's ManufacturingProcessSpec or an argument of the call: the
\* chamfer measurements, the edge point sequences and the drip-edge
\* readings stay as the caller passed them, up to and after the return.
C16_InputsUnchanged ==
    [][/\ spec' = spec
       /\ pc # "idle" => chamfer_measurements' = chamfer_measurements
       /\ EdgePointsRead => edge_point_data' = edge_point_data
       /\ DripMeasurementsRead
             => drip_edge_measurements' = drip_edge_measurements]_vars

\* A returned run that validated an edge of two points and drip-edge
\* readings of an orientation with a drip-edge specification.
C16_Witness ==
    /\ pc = "returned"
    /\ Len(edge_point_data) = 1
    /\ Len(edge_point_data[1][2]) = 2
    /\ Len(report.squareness_results) = 1
    /\ drip_edge_measurements # None
    /\ Len(report.drip_edge_results) = 1
    /\ Len(report.drip_edge_results[1][2]) = 4

\* A result line followed by a line for each of the result's non-empty
\* recommendations, for each result of rs in turn.
RECURSIVE LinesWithRecommendations(_)
LinesWithRecommendations(rs) ==
    IF rs = <<>> THEN <<>>
    ELSE LET r == Head(rs)
             recs == SelectSeq(r.recommendations, LAMBDA t : t # "")
         IN  <<[kind |-> "result", icon |-> StatusIcon(r.status),
                check_name |-> r.check_name]>>
             \o [i \in 1..Len(recs) |->
                    [kind |-> "recommendation", text |-> recs[i]]]
             \o LinesWithRecommendations(Tail(rs))

\* The lines of a section whose map holds a list of results per orientation,
\* and of the squareness section, whose map holds one result per orientation.
RECURSIVE SectionWithRecommendations(_)
SectionWithRecommendations(d) ==
    IF d = <<>> THEN <<>>
    ELSE <<[kind |-> "orientation", orientation |-> Head(d)[1]]>>
         \o LinesWithRecommendations(Head(d)[2])
         \o SectionWithRecommendations(Tail(d))

SquarenessWithRecommendations ==
    LinesWithRecommendations(
        [i \in 1..Len(report.squareness_results) |->
            report.squareness_results[i][2]])

\* C20: in the text of generate_report_summary every result line of the
\* chamfer, the squareness and the drip-edge section is followed by one
\* line per non-empty recommendation of its result, and by none for an
\* empty recommendation string.
C20_RecommendationsFollowEveryResult ==
    (pc = "summarised" /\ ~Raised(summary)) =>
        summary.lines =
            (IF report.chamfer_results # <<>>
             THEN <<Heading("CHAMFER VALIDATION:")>>
                  \o SectionWithRecommendations(report.chamfer_results)
             ELSE <<>>)
            \o (IF report.squareness_results # <<>>
                THEN <<Heading("EDGE SQUARENESS VALIDATION:")>>
                     \o SquarenessWithRecommendations
                ELSE <<>>)
            \o (IF report.drip_edge_results # <<>>
                THEN <<Heading("DRIP EDGE VALIDATION:")>>
                     \o SectionWithRecommendations(report.drip_edge_results)
                ELSE <<>>)

-----------------------------------------------------------------------------
(* Properties of ChamferSpecification (SpecC) *)

\* C17: a ChamferSpecification always has
\* width_mm = 2 * depth_mm * tan(angle_degrees / 2): after construction,
\* also with an explicit width_mm, and after depth_mm or angle_degrees
\* was changed.
C17_WidthFollowsDepthAndAngle ==
    chamfer_spec # None =>
        REq(chamfer_spec.width_mm,
            ChamferWidth(chamfer_spec.depth_mm, chamfer_spec.angle_degrees))

-----------------------------------------------------------------------------
(* Properties of the CAD service (SpecS) *)

\* C21: when no call of the service is under way, no temporary directory
\* of generate_drawing exists, whichever way the calls ended (drawing
\* generated, engine raised, SVG unreadable); with the CAD engine
\* unavailable no temporary directory is ever created.
C21_TempDirRemovedOnReturn ==
    ServiceActive =>
        /\ service.pc = "idle" => service.dirs = {}
        /\ ~service.available => service.created = 0

\* generate_drawing created a directory, could not read the SVG, returned
\* its failure, and the directory is gone.
C21_Witness ==
    /\ ServiceActive
    /\ service.pc = "idle"
    /\ service.entry = "generate_drawing"
    /\ service.created >= 1
    /\ service.outcome = Returned(Failure("No such file or directory"))
    /\ service.dirs = {}

\* C22: a call of generate_drawing or process_slab_file ends by returning a
\* dict with the key 'success', never by an exception; the value is
\* success=False when the engine is unavailable and when the file is
\* missing or is not valid JSON.
C22_ServiceNeverRaises ==
    (ServiceActive /\ service.outcome # None) =>
        /\ "returned" \in DOMAIN service.outcome
        /\ "success" \in DOMAIN service.outcome.returned
        /\ (\/ service.file \in {"missing", "not_utf8", "invalid_json"}
            \/ (service.entry = "generate_drawing" /\ ~service.available))
              => ~service.outcome.returned.success

-----------------------------------------------------------------------------
(* Properties of optimize_layout (SpecL) *)

SlabLength == DictGet(call.request.slab_dimensions.length, DefaultSlabLength)
SlabWidth == DictGet(call.request.slab_dimensions.width, DefaultSlabWidth)
ItemLength(i) == DictGet(call.request.items[i].dims.length, DefaultItemSize)
ItemWidth(i) == DictGet(call.request.items[i].dims.width, DefaultItemSize)
Layout == call.response.result.layout

\* C23: an item wider than the slab or longer than the slab is reported with
\* fits = False, and fits_all is True exactly when every item is reported
\* with fits = True (so it is True for the empty list).
C23_OversizedItemDoesNotFit ==
    Called("optimize_layout") =>
        /\ \A i \in 1..Len(call.request.items) :
               (ItemWidth(i) > SlabWidth \/ ItemLength(i) > SlabLength)
                   => ~Layout[i].fits
        /\ call.response.result.fits_all
               <=> \A i \in 1..Len(Layout) : Layout[i].fits

\* C24: the efficiency is a percentage between 0 and 100 (0 and 1000 tenths)
\* for every slab and every list of items, and 0 for the empty list.
C24_EfficiencyIsPercentage ==
    Called("optimize_layout") =>
        /\ call.response.result.efficiency >= 0
        /\ call.response.result.efficiency <= 1000
        /\ call.request.items = <<>> => call.response.result.efficiency = 0

-----------------------------------------------------------------------------
(* Counters and stored results of validate_all (Spec) *)

ProducedWith(status) ==
    Cardinality({i \in 1..Len(produced) : produced[i].result.status = status})

\* validate_all is not between the checks of one chamfer measurement and the
\* loop that counts them by status.
BetweenChecks == pc \notin {"chamfer_angle", "chamfer_roughness", "chamfer_count"}

\* C25: whenever validate_all is between two checks, and when it has ended,
\* total_checks is passed_checks + warning_checks + failed_checks plus the
\* number of NotChecked results so far: every check, of a chamfer, of the
\* consistency, of the squareness or of a drip edge, is counted in the total
\* and in the counter of its status.
C25_CountersPartitionTotal ==
    BetweenChecks =>
        report.total_checks =
            report.passed_checks + report.warning_checks
                + report.failed_checks + ProducedWith(NOT_CHECKED)

RECURSIVE StoredIn(_)
StoredIn(d) ==
    IF d = <<>> THEN 0 ELSE Len(Head(d)[2]) + StoredIn(Tail(d))

\* The number of ValidationResults the report holds.
StoredResults(r) ==
    StoredIn(r.chamfer_results) + Len(r.squareness_results)
        + StoredIn(r.drip_edge_results)

\* C27: the report validate_all returns holds as many results in
\* chamfer_results, squareness_results and drip_edge_results together as
\* total_checks says: no counted result is missing from the report.
C27_EveryCountedResultIsStored ==
    pc = "returned" => report.total_checks = StoredResults(report)

\* C30: a report validate_all returns has total_checks >= 1, and
\* generate_report_summary of it does not end in a division by zero.
C30_ReturnedReportHasChecks ==
    pc = "returned" =>
        /\ report.total_checks >= 1
        /\ ~Raised(generate_report_summary(report))

\* The summary of a report returned for a call without any measurement: the
\* consistency check alone was counted.
C30_Witness ==
    /\ pc = "summarised"
    /\ chamfer_measurements = <<>>
    /\ Len(produced) = 1
    /\ report.total_checks = 1
    /\ ~Raised(summary)

\* The statuses of the results the report holds, in the order in which
\* generate_report_summary prints them.
PrintedStatuses ==
    StatusesOf(report.chamfer_results)
        \o [i \in 1..Len(report.squareness_results) |->
               report.squareness_results[i][2].status]
        \o StatusesOf(report.drip_edge_results)

ResultLines == SelectSeq(summary.lines, LAMBDA l : l.kind = "result")

\* C28: the marker of every result line of the summary reflects the status
\* of its result: [PASS] iff Pass, [WARN] iff Warn, [FAIL] iff Fail; a
\* NotChecked result is not printed with [FAIL].
C28_MarkerReflectsStatus ==
    (pc = "summarised" /\ ~Raised(summary)) =>
        /\ Len(ResultLines) = Len(PrintedStatuses)
        /\ \A i \in 1..Len(ResultLines) :
              /\ ResultLines[i].icon = "[PASS]" <=> PrintedStatuses[i] = PASS
              /\ ResultLines[i].icon = "[WARN]" <=> PrintedStatuses[i] = WARN
              /\ ResultLines[i].icon = "[FAIL]" <=> PrintedStatuses[i] = FAIL

=============================================================================
